---- MODULE Spec2Model ----
(***************************************************************************)
(* logpipe: STDIN to UNIX-domain socket log writer.                        *)
(*                                                                         *)
(* The repository holds two generations of run(): the bufio.Scanner one    *)
(* (logpipe.go) and the bufio.Reader one with output modes (the later      *)
(* revision).  Both are modelled; `impl` selects the generation.           *)
(*                                                                         *)
(* Bytes are integers 0..255, strings are sequences of bytes.  Every       *)
(* blocking system call (connect, one write on the socket, one read on    *)
(* stdin) is one step.  The buffers of bufio (Writer, Reader, Scanner)     *)
(* keep their behaviour, with sizes scaled down from 4096 and 65536.       *)
(* The forwarding loop (Spec) runs with -output-mode line; the record      *)
(* transformer is also checked on its own, both output modes included      *)
(* (SpecX).                                                                *)
(***************************************************************************)
EXTENDS Integers, Sequences, FiniteSets, TLC

\* ------------------------------------------------------------------------
\* Bounds
\* ------------------------------------------------------------------------
\* longest standard input, in bytes
MaxInput == 3
\* successful connections after which the destination refuses every dial
MaxConns == 2
\* size of a bufio.Writer buffer (bufio's default, scaled down)
WriterBufSize == 2
\* size of a bufio.Reader buffer (bufio's default, scaled down)
ReaderBufSize == 3
\* first size of a bufio.Scanner buffer (bufio's startBufSize, scaled down)
StartBufSize == 2
\* largest bufio.Scanner buffer (bufio.MaxScanTokenSize, scaled down)
MaxScanTokenSize == 3

NL == 10
CR == 13
NUL == 0
\* the <NUL> marker
NulMarker == <<60, 78, 85, 76, 62>>
\* encoding of utf8.RuneError (U+FFFD)
RuneErrorBytes == <<239, 191, 189>>

\* bytes standard input is made of
Alphabet == {97, NL}
\* values of -reconnect-time
ReconnectTimes == {-1, 0, 1}
\* values of -wrap
WrapWidths == {0, 3}
\* values of -prefix
Prefixes == {<<80>>}

\* longest record given to the transformer on its own
MaxRecord == 2
\* records the transformer is given one after the other
MaxApply == 2
\* "hello" and "abcdefghij"
Hello == <<104, 101, 108, 108, 111>>
Abcdefghij == <<97, 98, 99, 100, 101, 102, 103, 104, 105, 106>>
\* bytes of those records: a, NUL, and the two bytes of U+00E9, which are
\* ill-formed in any other arrangement
XAlphabet == {97, NUL, 195, 169}
XWrapWidths == {0, 1, 2, 3, 5, 10}
\* "", "P" and "X: "
XPrefixes == {<<>>, <<80>>, <<88, 58, 32>>}
\* -json-attr arguments: none, host=a, message=x
XAttrArgs == {<<>>, << <<104, 111, 115, 116, 61, 97>> >>,
              << <<109, 101, 115, 115, 97, 103, 101, 61, 120>> >>}

None == <<"none">>

VARIABLES
    \* configuration (flags), fixed after flag.Parse()
    impl, f_reconnect_time, f_init_reconnect, f_wrap, f_esc_null, f_prefix,
    f_output_mode, sockettype,
    \* the -json-attr pairs as given on the command line
    f_json_attr,
    \* the global map of -json-attr pairs, which makeOutString writes to
    jsonAttrs,
    \* the bytes standard input will supply and how many the process has taken
    input, inOff,
    \* globals of the program
    nr_conns, strout,
    \* position of the main goroutine and the process exit status
    pc, exitStatus,
    \* run()'s locals: conn, the writer's progress and the reader/scanner
    conn, woff, rbuf, racc, sstart, scap, serr,
    \* socket handles the process holds open
    openConns,
    \* history: last event, bytes the destination received, units whose
    \* write and flush succeeded, records whose write failed, record now in
    \* strout, records handed over by the line source, whether strout was
    \* flushed, unit awaiting its retry, whether a read error occurred
    ev, received, acked, failed, curIdx, nread, flushed, retry, readErrSeen

flagvars == <<impl, f_reconnect_time, f_init_reconnect, f_wrap, f_esc_null,
              f_prefix, f_output_mode, sockettype, f_json_attr, input>>
cfgvars == <<flagvars, jsonAttrs>>
rdvars == <<rbuf, racc, sstart, scap, serr>>
histvars == <<received, acked, failed, curIdx, nread, flushed, retry,
              readErrSeen>>
vars == <<cfgvars, inOff, nr_conns, strout, pc, exitStatus, conn, woff,
          rdvars, openConns, ev, histvars>>

\* ------------------------------------------------------------------------
\* Sequences of bytes
\* ------------------------------------------------------------------------
Min(a, b) == IF a < b THEN a ELSE b

SeqsUpTo(S, n) == UNION {[1..k -> S] : k \in 0..n}

\* the records the transformer is given
XRecords == SeqsUpTo(XAlphabet, MaxRecord) \cup {Hello, Abcdefghij}

\* index of the first delimiter in s, 0 when there is none
IndexByte(s, d) ==
    IF \E k \in 1..Len(s) : s[k] = d
    THEN CHOOSE k \in 1..Len(s) : s[k] = d /\ \A j \in 1..(k-1) : s[j] # d
    ELSE 0

\* number of delimiters among the first n bytes of s
RECURSIVE CountByte(_, _, _)
CountByte(s, d, n) ==
    IF n = 0 THEN 0
    ELSE CountByte(s, d, n-1) + (IF s[n] = d THEN 1 ELSE 0)

\* s[a..b], empty when a > b
Slice(s, a, b) == IF a > b THEN <<>> ELSE SubSeq(s, a, b)

\* ------------------------------------------------------------------------
\* Record transformer
\* ------------------------------------------------------------------------
\* strings.Replace(stxt, "\x00", "<NUL>", -1)
RECURSIVE EscapeNull(_)
EscapeNull(s) ==
    IF s = <<>> THEN <<>>
    ELSE (IF Head(s) = NUL THEN NulMarker ELSE <<Head(s)>>) \o EscapeNull(Tail(s))

IsCont(s, i, lo, hi) == i <= Len(s) /\ s[i] >= lo /\ s[i] <= hi

\* number of bytes of the well-formed UTF-8 sequence that starts at s[i],
\* 0 when s[i] does not start one
RuneSize(s, i) ==
    LET b == s[i] IN
    IF b < 128 THEN 1
    ELSE IF b >= 194 /\ b <= 223
         THEN IF IsCont(s, i+1, 128, 191) THEN 2 ELSE 0
    ELSE IF b >= 224 /\ b <= 239
         THEN IF /\ IsCont(s, i+1, IF b = 224 THEN 160 ELSE 128,
                                   IF b = 237 THEN 159 ELSE 191)
                 /\ IsCont(s, i+2, 128, 191)
              THEN 3 ELSE 0
    ELSE IF b >= 240 /\ b <= 244
         THEN IF /\ IsCont(s, i+1, IF b = 240 THEN 144 ELSE 128,
                                   IF b = 244 THEN 143 ELSE 191)
                 /\ IsCont(s, i+2, 128, 191)
                 /\ IsCont(s, i+3, 128, 191)
              THEN 4 ELSE 0
    ELSE 0

\* one iteration of `for _, runeValue := range stxt` at byte i: the bytes
\* the iteration consumes, utf8.RuneLen(runeValue) and what WriteRune emits
DecodeRune(s, i) ==
    LET n == RuneSize(s, i) IN
    IF n = 0 THEN [size |-> 1, runeBytes |-> 3, out |-> RuneErrorBytes]
    ELSE [size |-> n, runeBytes |-> n, out |-> SubSeq(s, i, i+n-1)]

\* "message"
MessageKey == <<109, 101, 115, 115, 97, 103, 101>>

EmptyMap == [k \in {} |-> <<>>]

\* m[k] = v on a Go map
Put(m, k, v) == [x \in DOMAIN m \cup {k} |-> IF x = k THEN v ELSE m[x]]

\* jsonAttrSet.Set: one -json-attr argument is added to the map m; ok is
\* FALSE where the code calls log.Fatalf
jsonAttrSet_Set(m, value) ==
    LET i == IndexByte(value, 61) IN
    IF i = 0 THEN [ok |-> FALSE, attrs |-> m]
    ELSE LET k == Slice(value, 1, i - 1)
             v == Slice(value, i + 1, Len(value))
         IN  IF k \in DOMAIN m THEN [ok |-> FALSE, attrs |-> m]
             ELSE [ok |-> TRUE, attrs |-> Put(m, k, v)]

\* flag.Parse() calling Set for every -json-attr argument, in order
RECURSIVE ParseAttrs(_, _)
ParseAttrs(m, args) ==
    IF args = <<>> THEN [ok |-> TRUE, attrs |-> m]
    ELSE LET r == jsonAttrSet_Set(m, Head(args)) IN
         IF r.ok THEN ParseAttrs(r.attrs, Tail(args)) ELSE r

\* byte-wise order of Go strings
LexLess(a, b) ==
    \E i \in 1..(Min(Len(a), Len(b)) + 1) :
        /\ \A j \in 1..(i - 1) : a[j] = b[j]
        /\ \/ i > Len(a) /\ i <= Len(b)
           \/ i <= Len(a) /\ i <= Len(b) /\ a[i] < b[i]

\* the keys of a map in the order json.Marshal writes them
RECURSIVE SortedKeys(_)
SortedKeys(S) ==
    IF S = {} THEN <<>>
    ELSE LET k == CHOOSE x \in S : \A y \in S \ {x} : LexLess(x, y)
         IN  <<k>> \o SortedKeys(S \ {k})

HexDigit(n) == IF n < 10 THEN 48 + n ELSE 87 + n

\* what json.Marshal writes for the bytes of a string from s[i] on
RECURSIVE JsonStringBody(_, _)
JsonStringBody(s, i) ==
    IF i > Len(s) THEN <<>>
    ELSE LET b == s[i] IN
         IF b < 128
         THEN (IF b = 34 \/ b = 92 THEN <<92, b>>
               ELSE IF b = 10 THEN <<92, 110>>
               ELSE IF b = 13 THEN <<92, 114>>
               ELSE IF b = 9 THEN <<92, 116>>
               ELSE IF b < 32 \/ b = 60 \/ b = 62 \/ b = 38
                    THEN <<92, 117, 48, 48, HexDigit(b \div 16),
                           HexDigit(b % 16)>>
               ELSE <<b>>) \o JsonStringBody(s, i + 1)
         ELSE LET n == RuneSize(s, i) IN
              IF n = 0
              THEN <<92, 117, 102, 102, 102, 100>> \o JsonStringBody(s, i + 1)
              ELSE IF n = 3 /\ s[i] = 226 /\ s[i+1] = 128
                            /\ s[i+2] \in {168, 169}
                   THEN <<92, 117, 50, 48, 50, IF s[i+2] = 168 THEN 56 ELSE 57>>
                          \o JsonStringBody(s, i + 3)
              ELSE SubSeq(s, i, i + n - 1) \o JsonStringBody(s, i + n)

JsonString(s) == <<34>> \o JsonStringBody(s, 1) \o <<34>>

RECURSIVE JsonMembers(_, _)
JsonMembers(keys, m) ==
    IF keys = <<>> THEN <<>>
    ELSE JsonString(Head(keys)) \o <<58>> \o JsonString(m[Head(keys)])
           \o (IF Len(keys) > 1 THEN <<44>> ELSE <<>>)
           \o JsonMembers(Tail(keys), m)

\* json.Marshal of a map[string]string
Marshal(m) == <<123>> \o JsonMembers(SortedKeys(DOMAIN m), m) \o <<125>>

\* makeOutString: the payload itself in line mode, the marshalled map with
\* the payload stored under "message" in json mode
makeOutString(instr) ==
    IF f_output_mode = "line" THEN instr
    ELSE Marshal(Put(jsonAttrs, MessageKey, instr))

\* plen forgetting the newline of line mode
plen_NoNewline == Len(f_prefix)

\* len(prefix), plus 1 in line mode
plen == Len(f_prefix) + (IF f_output_mode = "line" THEN 1 ELSE 0)

\* the wrapping loop: sb is the physical line being built, ob the lines done
RECURSIVE WrapLoop(_, _, _, _, _)
WrapLoop(stxt, i, sb, ob, lineBytes) ==
    IF i > Len(stxt) THEN ob \o makeOutString(sb) \o <<NL>>
    ELSE LET r == DecodeRune(stxt, i) IN
         IF lineBytes + r.runeBytes > f_wrap
         THEN WrapLoop(stxt, i + r.size, f_prefix \o r.out,
                       ob \o makeOutString(sb) \o <<NL>>, plen + r.runeBytes)
         ELSE WrapLoop(stxt, i + r.size, sb \o r.out, ob,
                       lineBytes + r.runeBytes)

\* the physical line the wrapping loop encodes last
RECURSIVE WrapLast(_, _, _, _)
WrapLast(stxt, i, sb, lineBytes) ==
    IF i > Len(stxt) THEN sb
    ELSE LET r == DecodeRune(stxt, i) IN
         IF lineBytes + r.runeBytes > f_wrap
         THEN WrapLast(stxt, i + r.size, f_prefix \o r.out, plen + r.runeBytes)
         ELSE WrapLast(stxt, i + r.size, sb \o r.out, lineBytes + r.runeBytes)

\* the argument of the last makeOutString call made for the record raw
LastPayload(raw) ==
    LET stxt == IF f_esc_null THEN EscapeNull(raw) ELSE raw IN
    IF f_wrap = 0 \/ Len(stxt) + plen < f_wrap
    THEN f_prefix \o stxt
    ELSE WrapLast(stxt, 1, f_prefix, plen)

\* the global map after the makeOutString calls made for the record raw
AttrsAfter(raw) ==
    IF f_output_mode = "line" THEN jsonAttrs
    ELSE Put(jsonAttrs, MessageKey, LastPayload(raw))

\* Transform taking the wrapping loop at width 0 too
Transform_AlwaysWrap(raw) ==
    LET stxt == IF f_esc_null THEN EscapeNull(raw) ELSE raw IN
    IF Len(stxt) + plen < f_wrap
    THEN makeOutString(f_prefix \o stxt) \o <<NL>>
    ELSE WrapLoop(stxt, 1, f_prefix, <<>>, plen)

\* Transform comparing the width with the record before it is escaped
Transform_CompareRaw(raw) ==
    LET stxt == IF f_esc_null THEN EscapeNull(raw) ELSE raw IN
    IF f_wrap = 0 \/ Len(raw) + plen < f_wrap
    THEN makeOutString(f_prefix \o stxt) \o <<NL>>
    ELSE WrapLoop(stxt, 1, f_prefix, <<>>, plen)

\* Transform producing nothing for an empty record
Transform_SkipEmpty(raw) ==
    LET stxt == IF f_esc_null THEN EscapeNull(raw) ELSE raw IN
    IF stxt = <<>> THEN <<>>
    ELSE IF f_wrap = 0 \/ Len(stxt) + plen < f_wrap
    THEN makeOutString(f_prefix \o stxt) \o <<NL>>
    ELSE WrapLoop(stxt, 1, f_prefix, <<>>, plen)

\* from the raw record to the new value of strout
Transform(raw) ==
    LET stxt == IF f_esc_null THEN EscapeNull(raw) ELSE raw IN
    IF f_wrap = 0 \/ Len(stxt) + plen < f_wrap
    THEN makeOutString(f_prefix \o stxt) \o <<NL>>
    ELSE WrapLoop(stxt, 1, f_prefix, <<>>, plen)

\* ------------------------------------------------------------------------
\* State after flag.Parse() and before the first run()
\* ------------------------------------------------------------------------
Init ==
    /\ impl \in {"scanner", "reader"}
    /\ f_reconnect_time \in ReconnectTimes
    /\ f_init_reconnect \in BOOLEAN
    /\ f_wrap \in WrapWidths
    /\ f_esc_null = TRUE
    /\ f_prefix \in Prefixes
    /\ f_output_mode = "line"
    /\ f_json_attr = EmptyMap
    /\ jsonAttrs = f_json_attr
    /\ sockettype \in {"unix", "unixgram"}
    /\ input \in SeqsUpTo(Alphabet, MaxInput)
    /\ inOff = 0
    /\ nr_conns = 0
    /\ strout = <<>>
    /\ pc = "connect"
    /\ exitStatus = -1
    /\ conn = 0
    /\ woff = 0
    /\ rbuf = <<>> /\ racc = <<>> /\ sstart = 0 /\ scap = 0 /\ serr = "none"
    /\ openConns = {}
    /\ ev = "start"
    /\ received = <<>> /\ acked = <<>> /\ failed = {} /\ curIdx = 0
    /\ nread = 0 /\ flushed = FALSE /\ retry = None /\ readErrSeen = FALSE

\* ------------------------------------------------------------------------
\* Helpers of the actions
\* ------------------------------------------------------------------------
\* variant: the loop reads before it looks at strout
LoopTop_ReadFirst(s) == "read"

\* the test `if strout != ""` at the top of the loop
LoopTop(s) == IF s # <<>> THEN "write" ELSE "read"

\* os.Exit / log.Fatal: the process ends and the system closes its handles
Exit(status, cause) ==
    /\ pc' = "terminated"
    /\ exitStatus' = status
    /\ ev' = cause
    /\ openConns' = {}
    /\ UNCHANGED <<cfgvars, nr_conns, strout, conn, woff, received, acked,
                   failed, curIdx, nread, flushed, retry>>

\* number (from 1) of the input record that holds the byte after offset pos
RecIndex(pos) == CountByte(input, NL, pos) + 1

\* the line source handed over the record raw, which began at stream offset
\* pos: it is transformed into strout and the loop goes back to its top
Deliver(raw, pos, event) ==
    /\ strout' = Transform(raw)
    /\ pc' = LoopTop(strout')
    /\ woff' = 0
    /\ nread' = nread + 1
    /\ curIdx' = RecIndex(pos)
    /\ flushed' = FALSE
    /\ ev' = event
    /\ jsonAttrs' = AttrsAfter(raw)
    /\ UNCHANGED <<flagvars, nr_conns, exitStatus, conn, openConns, received,
                   acked, failed, retry>>

\* ------------------------------------------------------------------------
\* run(): connecting
\* ------------------------------------------------------------------------
\* net.Dial succeeds; a new reader/scanner and a new writer are created
DialOk ==
    /\ pc = "connect"
    /\ nr_conns < MaxConns
    /\ nr_conns' = nr_conns + 1
    /\ conn' = nr_conns'
    /\ openConns' = openConns \cup {conn'}
    /\ rbuf' = <<>> /\ racc' = <<>> /\ sstart' = 0 /\ scap' = 0
    /\ serr' = "none"
    /\ woff' = 0
    /\ pc' = LoopTop(strout)
    /\ ev' = "connect_ok"
    /\ UNCHANGED <<cfgvars, inOff, strout, exitStatus, histvars>>

\* variant: the test of nr_conns is left out
DialFail_NoCount ==
    /\ pc = "connect"
    /\ IF ~f_init_reconnect
       THEN Exit(1, "connect_fail")
       ELSE /\ pc' = "returned"
            /\ ev' = "connect_fail"
            /\ UNCHANGED <<cfgvars, nr_conns, strout, exitStatus, conn, woff,
                           openConns, received, acked, failed, curIdx, nread,
                           flushed, retry>>
    /\ UNCHANGED <<inOff, rdvars, readErrSeen>>

\* net.Dial fails
DialFail ==
    /\ pc = "connect"
    /\ IF nr_conns = 0 /\ ~f_init_reconnect
       THEN Exit(1, "connect_fail")
       ELSE /\ pc' = "returned"
            /\ ev' = "connect_fail"
            /\ UNCHANGED <<cfgvars, nr_conns, strout, exitStatus, conn, woff,
                           openConns, received, acked, failed, curIdx, nread,
                           flushed, retry>>
    /\ UNCHANGED <<inOff, rdvars, readErrSeen>>

\* ------------------------------------------------------------------------
\* run(): writer.WriteString(strout) and writer.Flush()
\* ------------------------------------------------------------------------
\* the bytes the next Write on the socket is given
Chunk == Slice(strout, woff + 1, Min(woff + WriterBufSize, Len(strout)))

\* how many bytes of a chunk a failing Write may have delivered
FailDelivered(chunk) ==
    IF sockettype = "unix" THEN 0..(Len(chunk) - 1) ELSE {0}

\* the Write succeeds; after the last chunk the loop goes on to read
WriteOk ==
    /\ pc = "write"
    /\ received' = received \o Chunk
    /\ woff' = woff + Len(Chunk)
    /\ retry' = None
    /\ IF woff' = Len(strout)
       THEN /\ pc' = "read"
            /\ acked' = Append(acked, [rec |-> curIdx, unit |-> strout])
            /\ flushed' = TRUE
            /\ ev' = "flush_ok"
       ELSE /\ pc' = "write"
            /\ ev' = "write_ok"
            /\ UNCHANGED <<acked, flushed>>
    /\ UNCHANGED <<cfgvars, inOff, nr_conns, strout, exitStatus, conn, rdvars,
                   openConns, failed, curIdx, nread, readErrSeen>>

\* variant: the failure clears strout
WriteFail_Clear ==
    /\ pc = "write"
    /\ \E k \in FailDelivered(Chunk) :
           received' = received \o Slice(Chunk, 1, k)
    /\ pc' = "returned"
    /\ conn' = 0
    /\ failed' = failed \cup {curIdx}
    /\ retry' = strout
    /\ strout' = <<>>
    /\ woff' = 0
    /\ ev' = "write_fail"
    /\ UNCHANGED <<cfgvars, inOff, nr_conns, exitStatus, rdvars,
                   openConns, acked, curIdx, nread, flushed, readErrSeen>>

\* variant: the failure is logged and the loop goes on to read
WriteFail_Ignore ==
    /\ pc = "write"
    /\ \E k \in FailDelivered(Chunk) :
           received' = received \o Slice(Chunk, 1, k)
    /\ pc' = "read"
    /\ failed' = failed \cup {curIdx}
    /\ ev' = "write_fail"
    /\ UNCHANGED <<cfgvars, inOff, nr_conns, strout, exitStatus, conn, woff,
                   rdvars, openConns, acked, curIdx, nread, flushed, retry,
                   readErrSeen>>

\* variant: the failure ends the process
WriteFail_Fatal ==
    /\ pc = "write"
    /\ Exit(1, "write_fail")
    /\ UNCHANGED <<inOff, rdvars, readErrSeen>>

\* the Write fails after k bytes: run() returns, strout and conn are left
\* as they are
WriteFail ==
    /\ pc = "write"
    /\ \E k \in FailDelivered(Chunk) :
           received' = received \o Slice(Chunk, 1, k)
    /\ pc' = "returned"
    /\ conn' = 0
    /\ failed' = failed \cup {curIdx}
    /\ retry' = strout
    /\ ev' = "write_fail"
    /\ UNCHANGED <<cfgvars, inOff, nr_conns, strout, exitStatus, woff, rdvars,
                   openConns, acked, curIdx, nread, flushed, readErrSeen>>

\* ------------------------------------------------------------------------
\* run(): reader.ReadString('\n') of the bufio.Reader generation
\* ------------------------------------------------------------------------
\* bytes standard input still holds
Avail == Len(input) - inOff

\* stxt[:len(stxt)-1]
ChopLast(stxt) == Slice(stxt, 1, Len(stxt) - 1)

\* ReadString has returned (stxt, readerErr): leave the loop on an empty
\* stxt, otherwise transform the record
ReadStringReturn(stxt, pos, isErr, event) ==
    IF Len(stxt) < 1
    THEN IF isErr THEN Exit(1, "read_err") ELSE Exit(0, "eof")
    ELSE Deliver(ChopLast(stxt), pos, event)

ReaderPos == inOff - Len(rbuf) - Len(racc)

\* fill(): one Read on standard input returns n bytes
ReaderFill ==
    /\ pc = "read" /\ impl = "reader"
    /\ IndexByte(rbuf, NL) = 0
    /\ Len(rbuf) < ReaderBufSize
    /\ \E n \in 1..Min(Avail, ReaderBufSize - Len(rbuf)) :
          /\ rbuf' = rbuf \o SubSeq(input, inOff + 1, inOff + n)
          /\ inOff' = inOff + n
    /\ ev' = "fill"
    /\ UNCHANGED <<cfgvars, nr_conns, strout, pc, exitStatus, conn, woff,
                   racc, sstart, scap, serr, openConns, histvars>>

\* the buffer is full and holds no delimiter: the fragment is set aside
ReaderFull ==
    /\ pc = "read" /\ impl = "reader"
    /\ IndexByte(rbuf, NL) = 0
    /\ Len(rbuf) >= ReaderBufSize
    /\ racc' = racc \o rbuf
    /\ rbuf' = <<>>
    /\ ev' = "buffer_full"
    /\ UNCHANGED <<cfgvars, inOff, nr_conns, strout, pc, exitStatus, conn,
                   woff, sstart, scap, serr, openConns, histvars>>

\* the buffer holds a delimiter: ReadString returns the line, no error
ReaderLine ==
    /\ pc = "read" /\ impl = "reader"
    /\ IndexByte(rbuf, NL) > 0
    /\ LET k == IndexByte(rbuf, NL) IN
          /\ ReadStringReturn(racc \o SubSeq(rbuf, 1, k), ReaderPos, FALSE,
                              "record")
          /\ rbuf' = Slice(rbuf, k + 1, Len(rbuf))
    /\ racc' = <<>>
    /\ UNCHANGED <<inOff, sstart, scap, serr, readErrSeen>>

\* Read reports end of file: ReadString returns what it holds and io.EOF
ReaderEOF ==
    /\ pc = "read" /\ impl = "reader"
    /\ IndexByte(rbuf, NL) = 0
    /\ Len(rbuf) < ReaderBufSize
    /\ Avail = 0
    /\ ReadStringReturn(racc \o rbuf, ReaderPos, FALSE, "record_eof")
    /\ rbuf' = <<>> /\ racc' = <<>>
    /\ UNCHANGED <<inOff, sstart, scap, serr, readErrSeen>>

\* Read fails: ReadString returns what it holds and the error
ReaderErr ==
    /\ pc = "read" /\ impl = "reader"
    /\ IndexByte(rbuf, NL) = 0
    /\ Len(rbuf) < ReaderBufSize
    /\ ReadStringReturn(racc \o rbuf, ReaderPos, TRUE, "read_err")
    /\ rbuf' = <<>> /\ racc' = <<>>
    /\ readErrSeen' = TRUE
    /\ UNCHANGED <<inOff, sstart, scap, serr>>

\* ------------------------------------------------------------------------
\* run(): scanner.Scan() / scanner.Text() of the bufio.Scanner generation
\* ------------------------------------------------------------------------
\* dropCR of bufio.ScanLines
dropCR(data) ==
    IF Len(data) > 0 /\ data[Len(data)] = CR THEN ChopLast(data) ELSE data

ScanPos == inOff - Len(rbuf)

\* Scan() making room before it reads: the data is moved to the front of
\* the buffer, a full buffer is doubled, a full buffer of the largest size
\* is the error ErrTooLong
ScanRoom ==
    LET slid == sstart > 0 /\ (sstart + Len(rbuf) = scap \/ sstart > scap \div 2)
        st   == IF slid THEN 0 ELSE sstart
    IN  IF st + Len(rbuf) = scap
        THEN IF scap >= MaxScanTokenSize
             THEN [tooLong |-> TRUE, start |-> st, cap |-> scap]
             ELSE [tooLong |-> FALSE, start |-> 0,
                   cap |-> Min(MaxScanTokenSize,
                               IF scap = 0 THEN StartBufSize ELSE scap * 2)]
        ELSE [tooLong |-> FALSE, start |-> st, cap |-> scap]

\* the buffer holds a newline: Scan returns true with the line as token
ScanToken ==
    /\ pc = "read" /\ impl = "scanner"
    /\ IndexByte(rbuf, NL) > 0
    /\ LET k == IndexByte(rbuf, NL) IN
          /\ Deliver(dropCR(Slice(rbuf, 1, k - 1)), ScanPos, "record")
          /\ rbuf' = Slice(rbuf, k + 1, Len(rbuf))
          /\ sstart' = sstart + k
    /\ UNCHANGED <<inOff, racc, scap, serr, readErrSeen>>

\* one Read on standard input returns n bytes
ScanFill ==
    /\ pc = "read" /\ impl = "scanner"
    /\ IndexByte(rbuf, NL) = 0 /\ serr = "none"
    /\ ~ScanRoom.tooLong
    /\ \E n \in 1..Min(Avail, ScanRoom.cap - ScanRoom.start - Len(rbuf)) :
          /\ rbuf' = rbuf \o SubSeq(input, inOff + 1, inOff + n)
          /\ inOff' = inOff + n
    /\ sstart' = ScanRoom.start
    /\ scap' = ScanRoom.cap
    /\ ev' = "fill"
    /\ UNCHANGED <<cfgvars, nr_conns, strout, pc, exitStatus, conn, woff,
                   racc, serr, openConns, histvars>>

\* the line does not fit the largest buffer: Scan returns false with
\* ErrTooLong and log.Fatal ends the process
ScanTooLong ==
    /\ pc = "read" /\ impl = "scanner"
    /\ IndexByte(rbuf, NL) = 0 /\ serr = "none"
    /\ ScanRoom.tooLong
    /\ serr' = "toolong"
    /\ Exit(1, "too_long")
    /\ UNCHANGED <<inOff, rbuf, racc, sstart, scap, readErrSeen>>

\* Read reports end of file or fails: the error is kept, what the buffer
\* holds is the final token; with nothing held Scan returns false
ScanEnd(err, event) ==
    /\ pc = "read" /\ impl = "scanner"
    /\ IndexByte(rbuf, NL) = 0 /\ serr = "none"
    /\ ~ScanRoom.tooLong
    /\ serr' = err
    /\ IF rbuf # <<>>
       THEN Deliver(dropCR(rbuf), ScanPos, event)
       ELSE IF err = "eof" THEN Exit(0, "eof") ELSE Exit(1, "read_err")
    /\ rbuf' = <<>>
    /\ sstart' = IF rbuf # <<>> THEN ScanRoom.start + Len(rbuf) ELSE 0
    /\ scap' = ScanRoom.cap
    /\ UNCHANGED <<inOff, racc>>

ScanEOF ==
    /\ Avail = 0
    /\ ScanEnd("eof", "record_eof")
    /\ UNCHANGED readErrSeen

ScanErr ==
    /\ ScanEnd("err", "read_err")
    /\ readErrSeen' = TRUE

\* Scan called after the final token: it returns false; scanner.Err() is
\* nil after end of file and the kept error otherwise
ScanStop ==
    /\ pc = "read" /\ impl = "scanner"
    /\ IndexByte(rbuf, NL) = 0 /\ serr # "none"
    /\ IF serr = "eof" THEN Exit(0, "eof") ELSE Exit(1, "read_err")
    /\ UNCHANGED <<inOff, rdvars, readErrSeen>>

\* ------------------------------------------------------------------------
\* main(): the loop around run(), the signal goroutine, the collector
\* ------------------------------------------------------------------------
\* variant: a delay of 0 reconnects at once
MainLoop_Ge ==
    /\ pc = "returned"
    /\ IF f_reconnect_time >= 0
       THEN /\ pc' = "connect"
            /\ ev' = "sleep"
            /\ UNCHANGED <<cfgvars, nr_conns, strout, exitStatus, conn, woff,
                           openConns, received, acked, failed, curIdx, nread,
                           flushed, retry>>
       ELSE Exit(1, "no_reconnect")
    /\ UNCHANGED <<inOff, rdvars, readErrSeen>>

\* run() has returned: sleep and call it again, or exit
MainLoop ==
    /\ pc = "returned"
    /\ IF f_reconnect_time > 0
       THEN /\ pc' = "connect"
            /\ ev' = "sleep"
            /\ UNCHANGED <<cfgvars, nr_conns, strout, exitStatus, conn, woff,
                           openConns, received, acked, failed, curIdx, nread,
                           flushed, retry>>
       ELSE Exit(1, "no_reconnect")
    /\ UNCHANGED <<inOff, rdvars, readErrSeen>>

\* SIGHUP, SIGINT or SIGTERM arrives
Signal ==
    /\ pc # "terminated"
    /\ Exit(0, "signal")
    /\ UNCHANGED <<inOff, rdvars, readErrSeen>>

\* run() never closes conn; the finalizer of an unreachable connection
\* closes its handle whenever the collector gets to it
Finalize ==
    /\ pc # "terminated"
    /\ \E h \in openConns \ {conn} : openConns' = openConns \ {h}
    /\ UNCHANGED <<cfgvars, inOff, nr_conns, strout, pc, exitStatus, conn,
                   woff, rdvars, ev, histvars>>

Next ==
    \/ DialOk \/ DialFail
    \/ WriteOk \/ WriteFail
    \/ ReaderFill \/ ReaderFull \/ ReaderLine \/ ReaderEOF \/ ReaderErr
    \/ ScanToken \/ ScanFill \/ ScanTooLong \/ ScanEOF \/ ScanErr \/ ScanStop
    \/ MainLoop \/ Signal \/ Finalize

Spec == Init /\ [][Next]_vars

\* ------------------------------------------------------------------------
\* The forwarding loop run for ever: -reconnect-time above 0 and
\* -retry-initial-connect on.  The program's own steps are taken when they
\* can be (the sleep ends, Dial returns, WriteString/Flush return), and the
\* destination refuses only finitely often.  A write is refused only while
\* the bound on connections leaves room for the reconnection that follows.
\* ------------------------------------------------------------------------
InitLive == Init /\ f_reconnect_time > 0 /\ f_init_reconnect

WriteFailLive == nr_conns < MaxConns /\ WriteFail

NextLive ==
    \/ DialOk \/ DialFail
    \/ WriteOk \/ WriteFailLive
    \/ ReaderFill \/ ReaderFull \/ ReaderLine \/ ReaderEOF \/ ReaderErr
    \/ ScanToken \/ ScanFill \/ ScanTooLong \/ ScanEOF \/ ScanErr \/ ScanStop
    \/ MainLoop \/ Signal \/ Finalize

\* the destination refuses a connection or a write
Refused == DialFail \/ WriteFailLive

SpecLive ==
    /\ InitLive /\ [][NextLive]_vars
    /\ WF_vars(MainLoop)
    /\ WF_vars(DialOk \/ DialFail)
    /\ WF_vars(WriteOk \/ WriteFailLive)
    /\ <>[][~Refused]_vars

\* ------------------------------------------------------------------------
\* The record transformer on its own: the flags are drawn as main() admits
\* them, `input` is one raw record, and the body of the loop from the NUL
\* escaping to the assignment of strout is applied to it MaxApply times
\* ------------------------------------------------------------------------
InitX ==
    /\ impl \in {"scanner", "reader"}
    /\ f_output_mode \in (IF impl = "scanner" THEN {"line"}
                          ELSE {"line", "json"})
    /\ \E a \in XAttrArgs :
          /\ ParseAttrs(EmptyMap, a).ok
          /\ f_output_mode = "line" => a = <<>>
          /\ f_json_attr = ParseAttrs(EmptyMap, a).attrs
    /\ jsonAttrs = f_json_attr
    /\ f_wrap \in XWrapWidths
    /\ f_esc_null \in BOOLEAN
    /\ f_prefix \in XPrefixes
    /\ input \in XRecords
    /\ f_reconnect_time = 1
    /\ f_init_reconnect = TRUE
    /\ sockettype = "unix"
    /\ inOff = 0
    /\ nr_conns = 0
    /\ strout = <<>>
    /\ pc = "read"
    /\ exitStatus = -1
    /\ conn = 0
    /\ woff = 0
    /\ rbuf = <<>> /\ racc = <<>> /\ sstart = 0 /\ scap = 0 /\ serr = "none"
    /\ openConns = {}
    /\ ev = "start"
    /\ received = <<>> /\ acked = <<>> /\ failed = {} /\ curIdx = 0
    /\ nread = 0 /\ flushed = FALSE /\ retry = None /\ readErrSeen = FALSE

\* the record is transformed into strout
XTransform ==
    /\ nread < MaxApply
    /\ Deliver(input, 0, "record")
    /\ UNCHANGED <<inOff, rdvars, readErrSeen>>

NextX == XTransform

SpecX == InitX /\ [][NextX]_vars

TypeOK ==
    /\ pc \in {"connect", "write", "read", "returned", "terminated"}
    /\ exitStatus \in {-1, 0, 1}
    /\ nr_conns \in 0..MaxConns
    /\ inOff \in 0..Len(input)
    /\ woff \in 0..Len(strout)

\* ------------------------------------------------------------------------
\* Properties
\* ------------------------------------------------------------------------
\* a step of the forwarding loop itself (not the signal, not the collector)
LoopStep == ev' # "signal" /\ (pc' # pc \/ ev' # ev)

\* the units of acked, concatenated
RECURSIVE FlatUnits(_)
FlatUnits(a) == IF a = <<>> THEN <<>> ELSE a[1].unit \o FlatUnits(Tail(a))

\* records of the whole input (a last one without newline included)
NumRecords ==
    CountByte(input, NL, Len(input))
      + (IF input # <<>> /\ input[Len(input)] # NL THEN 1 ELSE 0)

AckedRecs == {acked[i].rec : i \in 1..Len(acked)}

\* C1: while a unit whose write or flush failed awaits its retry and the
\* reconnect delay is positive, the loop does not terminate, takes nothing
\* from standard input and hands no record over, strout stays that unit, and
\* the next bytes given to a socket are the beginning of that same unit,
\* written from its first byte.
C1_ResendBeforeRead ==
    [][ (retry # None /\ f_reconnect_time > 0 /\ LoopStep) =>
          /\ strout = retry /\ strout' = strout
          /\ inOff' = inOff /\ nread' = nread
          /\ pc' # "terminated"
          /\ pc = "returned" => pc' = "connect"
          /\ pc = "write" =>
                /\ woff = 0
                /\ \E k \in 0..Len(retry) :
                      received' = received \o Slice(retry, 1, k)
      ]_vars

\* a unit whose write failed on one connection was written and flushed on a
\* later one
C1_Witness ==
    /\ ev = "flush_ok" /\ curIdx \in failed /\ nr_conns >= 2
    /\ f_reconnect_time > 0 /\ Len(strout) > WriterBufSize

\* C2: at most one unit handed over by the line source is not yet written
\* and flushed, and strout is replaced by a newly transformed record only
\* when it is empty or when its write and flush have both succeeded and no
\* failed write of it awaits a retry.
C2_ReplacedOnlyAfterFlush ==
    /\ [](/\ nread - Len(acked) \in {0, 1}
          /\ (nread - Len(acked) = 1) <=> (strout # <<>> /\ ~flushed))
    /\ [][ (nread' # nread \/ strout' # strout) =>
             \/ strout = <<>>
             \/ /\ flushed /\ retry = None
                /\ acked # <<>> /\ acked[Len(acked)].unit = strout
       ]_vars

\* after a failed and then successful write a further record is pending
C2_Witness ==
    /\ failed # {} /\ nr_conns >= 2 /\ acked # <<>>
    /\ acked[Len(acked)].rec \in failed
    /\ nread = Len(acked) + 1

\* C3: [as claimed] when the process ends at end of input, every record of
\* the input has been delivered, except records whose write failed.
C3_NoConsumedRecordLost ==
    ev = "eof" => \A i \in 1..NumRecords : i \in AckedRecs \/ i \in failed

\* C4: after a failed connection attempt the process has terminated, with
\* status 1 and without having taken a byte from standard input, exactly
\* when nr_conns is 0 and retry-initial-connect is disabled; otherwise run()
\* has returned to the retry decision of main().
C4_ConnectFailure ==
    ev = "connect_fail" =>
        IF nr_conns = 0 /\ ~f_init_reconnect
        THEN /\ pc = "terminated" /\ exitStatus = 1
             /\ inOff = 0 /\ nread = 0 /\ received = <<>>
        ELSE pc = "returned" /\ exitStatus = -1

\* retry-initial-connect is disabled, yet a later failed attempt is retried
C4_Witness ==
    /\ ev = "connect_fail" /\ ~f_init_reconnect /\ nr_conns > 0
    /\ pc = "returned"

\* C5: from Retrying, reconnect delay 0 leads in one step to termination with
\* status 1, without sleep, connection attempt, read or write; a positive
\* delay leads to a new connection attempt with strout unchanged.
C5_Retrying ==
    [][ (pc = "returned" /\ LoopStep) =>
          IF f_reconnect_time = 0
          THEN /\ pc' = "terminated" /\ exitStatus' = 1 /\ ev' # "sleep"
               /\ nr_conns' = nr_conns /\ inOff' = inOff /\ nread' = nread
               /\ received' = received
          ELSE f_reconnect_time > 0 =>
                  pc' = "connect" /\ strout' = strout /\ exitStatus' = -1
      ]_vars

\* with delay 0 the process ended after a failed write
C5_Witness ==
    /\ f_reconnect_time = 0 /\ ev = "no_reconnect" /\ failed # {}
    /\ pc = "terminated" /\ exitStatus = 1

\* C6: [as claimed] for every configuration the loop reconnects after a
\* write or flush failure.
C6_WriteFailureNeverFatal ==
    [][ (pc = "returned" /\ ev = "write_fail" /\ LoopStep) =>
          pc' = "connect" ]_vars

\* C6: [amended] a write or flush failure makes run() return with strout
\* kept; with a positive reconnect delay the loop then reconnects and the
\* new connection starts by writing that unit; with a delay of 0 or less the
\* process terminates with status 1.
C6_WriteFailureRecovered ==
    [][ /\ ev' = "write_fail" =>
              pc' = "returned" /\ exitStatus' = -1 /\ strout' = strout
        /\ (pc = "returned" /\ ev = "write_fail" /\ LoopStep) =>
              IF f_reconnect_time > 0
              THEN pc' = "connect" /\ retry # None /\ strout' = retry
              ELSE pc' = "terminated" /\ exitStatus' = 1
        /\ (ev' = "connect_ok" /\ retry # None) =>
              pc' = "write" /\ woff' = 0 /\ strout' = retry
      ]_vars

\* a new connection is about to retry the unit whose write failed
C6_Witness ==
    /\ pc = "write" /\ ev = "connect_ok" /\ retry # None /\ nr_conns >= 2

\* C7: when the line source reports the end of the input the process
\* terminates with status 0 in that step, which gives nothing to the socket;
\* every record the line source handed over has then been written and
\* flushed, the last of them being strout.
C7_EndOfStream ==
    /\ [](ev = "eof" =>
            /\ pc = "terminated" /\ exitStatus = 0
            /\ Len(acked) = nread /\ retry = None
            /\ nread > 0 => flushed /\ acked[Len(acked)].unit = strout)
    /\ [][ev' = "eof" => received' = received /\ pc = "read"]_vars

\* end of input reached after an outage, two records handed over
C7_Witness ==
    ev = "eof" /\ nread >= 2 /\ failed # {} /\ exitStatus = 0

\* C8: [as claimed] a read error ends the process with failure status in the
\* step that reports it; nothing is transformed after it.
C8_ReadErrorFatal ==
    ev = "read_err" => pc = "terminated" /\ exitStatus = 1

\* C9: [as claimed] at most one connection handle is open.
C9_OneHandle ==
    Cardinality(openConns) <= 1

\* C10: [as claimed] outside a write in progress the destination has
\* received exactly the units whose write and flush succeeded, so nothing
\* but whole units lies before a reconnect.
C10_WholeUnitsOnly ==
    (pc # "write" /\ ev # "signal" /\ ~readErrSeen) =>
        received = FlatUnits(acked)

\* ------------------------------------------------------------------------
\* Reading a unit back, as the destination does
\* ------------------------------------------------------------------------
\* the physical lines of a unit, without their newlines
RECURSIVE SplitLines(_)
SplitLines(u) ==
    IF u = <<>> THEN <<>>
    ELSE LET k == IndexByte(u, NL) IN
         IF k = 0 THEN <<u>>
         ELSE <<Slice(u, 1, k - 1)>> \o SplitLines(Slice(u, k + 1, Len(u)))

HexVal(b) == IF b <= 57 THEN b - 48 ELSE IF b >= 97 THEN b - 87 ELSE b - 55

\* UTF-8 encoding of a code point below 65536
Utf8(cp) ==
    IF cp < 128 THEN <<cp>>
    ELSE IF cp < 2048 THEN <<192 + (cp \div 64), 128 + (cp % 64)>>
    ELSE <<224 + (cp \div 4096), 128 + ((cp \div 64) % 64), 128 + (cp % 64)>>

\* a JSON string literal read from its opening quote at s[i]: its value and
\* the index after its closing quote
RECURSIVE ReadStringBody(_, _, _)
ReadStringBody(s, i, acc) ==
    IF i > Len(s) THEN [val |-> acc, next |-> i]
    ELSE IF s[i] = 34 THEN [val |-> acc, next |-> i + 1]
    ELSE IF s[i] = 92
         THEN LET c == s[i + 1] IN
              IF c = 117
              THEN ReadStringBody(s, i + 6,
                       acc \o Utf8(4096 * HexVal(s[i + 2]) + 256 * HexVal(s[i + 3])
                                   + 16 * HexVal(s[i + 4]) + HexVal(s[i + 5])))
              ELSE ReadStringBody(s, i + 2,
                       Append(acc, IF c = 110 THEN 10 ELSE IF c = 114 THEN 13
                                   ELSE IF c = 116 THEN 9 ELSE IF c = 98 THEN 8
                                   ELSE IF c = 102 THEN 12 ELSE c))
    ELSE ReadStringBody(s, i + 1, Append(acc, s[i]))

\* the members of a flat JSON object of strings read from s[i] on
RECURSIVE ReadMembers(_, _, _)
ReadMembers(s, i, m) ==
    IF i > Len(s) \/ s[i] # 34 THEN m
    ELSE LET k == ReadStringBody(s, i + 1, <<>>)
             v == ReadStringBody(s, k.next + 2, <<>>)
         IN  ReadMembers(s, v.next + 1, Put(m, k.val, v.val))

ReadObject(line) == ReadMembers(line, 2, EmptyMap)

\* the flags' record escaped or not, as the transformer wraps it
Escaped == IF f_esc_null THEN EscapeNull(input) ELSE input

\* prefix + chunk of a physical line
MessageOf(line) ==
    IF f_output_mode = "line" THEN line
    ELSE LET o == ReadObject(line) IN
         IF MessageKey \in DOMAIN o THEN o[MessageKey] ELSE <<>>

HasPrefix(s) == Len(s) >= Len(f_prefix) /\ SubSeq(s, 1, Len(f_prefix)) = f_prefix

\* the message content of a physical line: its payload without the prefix
ContentOf(line) == Slice(MessageOf(line), Len(f_prefix) + 1, Len(MessageOf(line)))

RECURSIVE Concat(_)
Concat(ss) == IF ss = <<>> THEN <<>> ELSE Head(ss) \o Concat(Tail(ss))

Lines == SplitLines(strout)
Contents == [i \in 1..Len(Lines) |-> ContentOf(Lines[i])]

\* s is well-formed UTF-8 from s[i] on
RECURSIVE ValidFrom(_, _)
ValidFrom(s, i) ==
    IF i > Len(s) THEN TRUE
    ELSE RuneSize(s, i) > 0 /\ ValidFrom(s, i + RuneSize(s, i))

\* C11: [as claimed] for a wrap width above the effective prefix length the
\* message contents of the physical lines of a unit, each payload beginning
\* with the prefix, concatenate to the escaped record, whatever its bytes;
\* a well-formed record gives well-formed contents.
C11_RoundTrip ==
    (nread >= 1 /\ f_wrap > plen) =>
        /\ \A i \in 1..Len(Lines) : HasPrefix(MessageOf(Lines[i]))
        /\ Concat(Contents) = Escaped
        /\ ValidFrom(input, 1) =>
              \A i \in 1..Len(Lines) : ValidFrom(Contents[i], 1)

\* bytes a physical line has besides its payload and its envelope
NewlineBytes == IF f_output_mode = "line" THEN 1 ELSE 0

\* at most one character
OneRuneAtMost(c) == c = <<>> \/ RuneSize(c, 1) = Len(c)

\* C12: [as claimed] with a wrap width above 0 no physical line, prefix
\* included, is longer than the width, in either mode, and width 10, empty
\* prefix and "abcdefghij" give exactly two physical lines.
C12_LineWithinWidth ==
    (nread >= 1 /\ f_wrap > 0) =>
        /\ \A i \in 1..Len(Lines) : Len(Lines[i]) <= f_wrap
        /\ (f_wrap = 10 /\ f_prefix = <<>> /\ input = Abcdefghij) =>
              Len(Lines) = 2

\* C12: [amended] with a wrap width above 0 the width bounds the payload of
\* a physical line (prefix and chunk, and the newline in line mode), not
\* the serialized line: the payload is within the width, or it is the only
\* line of a record that is within the width before it is encoded, or it
\* holds the prefix and at most one character.  Width 10, empty prefix and
\* "abcdefghij" give two physical lines in line mode, one in json mode.
C12_PayloadWithinWidth ==
    (nread >= 1 /\ f_wrap > 0) =>
        /\ \A i \in 1..Len(Lines) :
              \/ Len(MessageOf(Lines[i])) + NewlineBytes <= f_wrap
              \/ Len(Lines) = 1 /\ Len(f_prefix) + Len(Escaped) + NewlineBytes <= f_wrap
              \/ OneRuneAtMost(Contents[i])
        /\ (f_wrap = 10 /\ f_prefix = <<>> /\ input = Abcdefghij) =>
              Len(Lines) = (IF f_output_mode = "line" THEN 2 ELSE 1)

\* C12: "abcdefghij" has been wrapped at width 10 into two lines
C12_Witness ==
    /\ nread >= 1 /\ f_wrap = 10 /\ f_prefix = <<>> /\ input = Abcdefghij
    /\ f_output_mode = "line"
    /\ Len(Lines) = 2 /\ Len(Lines[1]) = 9

\* C13: in line mode with wrap width 0 a record without NUL bytes gives the
\* unit prefix + record + newline: one physical line, the record unmodified.
C13_PlainLine ==
    (nread >= 1 /\ f_output_mode = "line" /\ f_wrap = 0
        /\ CountByte(input, NUL, Len(input)) = 0) =>
        strout = f_prefix \o input \o <<NL>>

\* C13: "hello" has gone out as "X: hello\n"
C13_Witness ==
    /\ nread >= 1 /\ f_output_mode = "line" /\ f_wrap = 0
    /\ input = Hello /\ Len(f_prefix) = 3
    /\ strout = f_prefix \o Hello \o <<NL>>

\* number of NUL bytes of r
NulCount(r) == Cardinality({k \in 1..Len(r) : r[k] = NUL})

\* where byte k of r starts in its escaped form
EscPos(r, k) == k + 4 * Cardinality({j \in 1..(k - 1) : r[j] = NUL})

\* e is r with each NUL byte replaced by the marker, the rest in place
IsEscapeOf(r, e) ==
    /\ Len(e) = Len(r) + 4 * NulCount(r)
    /\ \A k \in 1..Len(r) :
          IF r[k] = NUL
          THEN SubSeq(e, EscPos(r, k), EscPos(r, k) + 4) = NulMarker
          ELSE e[EscPos(r, k)] = r[k]

\* the length the record has when the width is looked at
EscapedLen == Len(input) + (IF f_esc_null THEN 4 * NulCount(input) ELSE 0)

\* C14: with escape-null on, the content sent for a record is the record
\* with every NUL byte replaced by <NUL>, as many markers as NUL bytes and
\* every other byte in place; with escape-null off the NUL bytes go through.
\* The width is compared with the escaped record: a record whose escaped
\* form fits is one physical line, and a record with NUL bytes whose escaped
\* form does not fit is wrapped.
C14_EscapeNull ==
    nread >= 1 =>
        /\ (ValidFrom(input, 1) \/ (f_output_mode = "line" /\ f_wrap = 0)) =>
              IF f_esc_null THEN IsEscapeOf(input, Concat(Contents))
              ELSE Concat(Contents) = input
        /\ (f_wrap > 0 /\ Len(f_prefix) + EscapedLen + NewlineBytes < f_wrap) =>
              Len(Lines) = 1
        /\ (f_wrap > 0 /\ f_esc_null /\ NulCount(input) >= 1
              /\ Len(f_prefix) + EscapedLen + NewlineBytes > f_wrap) =>
              Len(Lines) >= 2

\* C14: a record with a NUL byte has been escaped, and its escaped form
\* wrapped where the raw record would have fitted
C14_Witness ==
    /\ nread >= 1 /\ f_esc_null /\ NulCount(input) >= 1
    /\ f_wrap > 0 /\ Len(f_prefix) + Len(input) + NewlineBytes < f_wrap
    /\ Len(Lines) >= 2
    /\ IsEscapeOf(input, Concat(Contents))

\* the objects of the physical lines of a unit
Objects == [i \in 1..Len(Lines) |-> ReadObject(Lines[i])]

\* C15: [as claimed] in json mode every physical line made for a record is
\* a flat object holding every configured extra field with its configured
\* value and a message field equal to prefix + chunk, and nothing else, in
\* the lines of the first record and in those of a later one.
C15_StructuredFields ==
    (nread >= 1 /\ f_output_mode = "json") =>
        /\ \A i \in 1..Len(Lines) :
              /\ \A k \in DOMAIN f_json_attr :
                    k \in DOMAIN Objects[i] /\ Objects[i][k] = f_json_attr[k]
              /\ DOMAIN Objects[i] = DOMAIN f_json_attr \cup {MessageKey}
              /\ HasPrefix(Objects[i][MessageKey])
        /\ ValidFrom(input, 1) => Concat(Contents) = Escaped
        /\ (f_prefix = <<88, 58, 32>> /\ input = Hello /\ f_wrap = 0
              /\ DOMAIN f_json_attr = {<<104, 111, 115, 116>>}) =>
              Objects[1] = Put(f_json_attr, MessageKey, f_prefix \o Hello)

\* C16: an empty record gives exactly one physical line, whose message is
\* the prefix alone, followed by one newline, at every wrap width and in
\* both output modes.
C16_EmptyRecord ==
    (nread >= 1 /\ input = <<>>) =>
        /\ Len(Lines) = 1
        /\ MessageOf(Lines[1]) = f_prefix
        /\ CountByte(strout, NL, Len(strout)) = 1
        /\ strout[Len(strout)] = NL
        /\ f_output_mode = "line" => strout = f_prefix \o <<NL>>

\* C16: an empty record has been transformed at a width below the prefix
\* length
C16_Witness ==
    /\ nread >= 1 /\ input = <<>>
    /\ f_wrap > 0 /\ f_wrap < plen
    /\ Len(Lines) = 1 /\ MessageOf(Lines[1]) = f_prefix

\* C17: [as claimed] at every wrap width from 1 up, widths below the prefix
\* length included, the wrapping of a record ends with at most one physical
\* line more than the (escaped) record has bytes, and every physical line
\* of a non-empty record carries at least one character of it.
C17_ForwardProgress ==
    (nread >= 1 /\ f_wrap >= 1) =>
        /\ Len(Lines) <= EscapedLen + 1
        /\ input # <<>> => \A i \in 1..Len(Lines) : Contents[i] # <<>>

\* the k-th newline-separated record of s
RECURSIVE NthRecord(_, _)
NthRecord(s, k) ==
    LET j == IndexByte(s, NL) IN
    IF k <= 1 \/ j = 0
    THEN (IF j = 0 THEN s ELSE Slice(s, 1, j - 1))
    ELSE NthRecord(Slice(s, j + 1, Len(s)), k - 1)

\* C18: [as claimed] while run() has not been re-entered and no read has
\* failed, the record the line source hands to the transformer is the
\* newline-separated record of standard input at that place, byte for byte,
\* a last record without newline included; at the end-of-stream exit every
\* record has been handed over once.
C18_RecordsExact ==
    (nr_conns <= 1 /\ ~readErrSeen) =>
        /\ ev \in {"record", "record_eof"} =>
              strout = Transform(NthRecord(input, curIdx))
        /\ (pc = "terminated" /\ ev = "eof") => nread = NumRecords

\* C19: [as claimed] the units whose write and flush succeeded are, in
\* order, transformed records of standard input in input order, none of
\* them twice, and after a successful flush the loop is at a read.
C19_AckedInOrder ==
    /\ \A i \in 1..Len(acked) :
          /\ acked[i].rec \in 1..NumRecords
          /\ acked[i].unit = Transform(NthRecord(input, acked[i].rec))
          /\ \A j \in 1..(i - 1) : acked[j].rec < acked[i].rec
    /\ ev = "flush_ok" => pc = "read"

\* C20: with a reconnect delay above 0 and retry-initial-connect on, once
\* the destination stops refusing, a loop that is connecting or waiting to
\* reconnect gets to streaming (writing or reading), a unit carried over
\* from a failed write gets written and flushed and the loop is then at a
\* read, and the process ends only by end of input, a read error or a
\* signal, never because of the refusals.
C20_Liveness ==
    /\ (pc \in {"connect", "returned"}) ~>
          (pc \in {"write", "read"} \/ ev = "signal")
    /\ (retry # None) ~>
          \/ /\ ev = "flush_ok" /\ pc = "read" /\ retry = None
             /\ acked[Len(acked)].unit = strout
          \/ ev = "signal"
    /\ [](pc = "terminated" =>
             ev \in {"eof", "read_err", "too_long", "signal"})

\* C20: after a refused write and a reconnection the carried-over unit has
\* been written and flushed
C20_Witness ==
    /\ f_reconnect_time > 0 /\ f_init_reconnect
    /\ failed # {} /\ nr_conns >= 2
    /\ ev = "flush_ok" /\ pc = "read"
    /\ acked[Len(acked)].rec \in failed

====
